---- MODULE Spec2Model ----
(***************************************************************************)
(* GNSS constellation manager of s2e-core (gnss_satellites.cpp): the       *)
(* sliding interpolation window over a list of SP3 files, its seeding in   *)
(* Initialize, its refill in Update and the position / clock getters.      *)
(*                                                                         *)
(* Times are whole seconds.  A buffer sample is a record [t, v]: its       *)
(* time-offset from reference_time_ and the stored value.  Vectors are     *)
(* 0-based functions, as in the source; an access outside the domain is    *)
(* undefined behaviour and is modelled as a choice between a crash and a   *)
(* continuation that read indeterminate data.                              *)
(***************************************************************************)
EXTENDS Integers, Sequences, FiniteSets, TLC

VARIABLES
  phase,                                  \* "new" | "running" | "crashed"
  cfg,                                    \* the configuration and the simulation start time
  sim_time,                               \* SimulationTime: the current time of the simulation
  is_calc_enabled_,
  sp3_files_,
  number_of_calculated_gnss_satellites_,
  sp3_file_id_,
  reference_time_,
  reference_interpolation_id_,
  current_epoch_time_,
  orbit_,
  clock_,
  log,                                    \* messages written to std::cout, counted by kind
  oob,                                    \* the vectors Initialize and Update accessed out of range
  overrun,                                \* calls of Update on an exhausted or unseeded manager
  ev,                                     \* the last call and what it returned
  uart_ports_,                            \* OBC: std::map<int, UartPort*>
  i2c_ports_,                             \* OBC: std::map<int, I2cPort*>
  gpio_ports_,                            \* OBC: std::map<int, GpioPort*>
  obc,                                    \* "running" | "crashed": the program that drives the OBC
  call,                                   \* the last call of the OBC or of an I2C port and its result
  i2c_port                                \* an I2CPort object used on its own

gnss_vars == <<phase, cfg, sim_time, is_calc_enabled_, sp3_files_,
               number_of_calculated_gnss_satellites_, sp3_file_id_, reference_time_,
               reference_interpolation_id_, current_epoch_time_, orbit_, clock_, log, oob,
               overrun, ev>>

obc_vars == <<uart_ports_, i2c_ports_, gpio_ports_, obc, call>>

vars == <<gnss_vars, obc_vars, i2c_port>>

(***************************************************************************)
(* Bounds of the model                                                     *)
(***************************************************************************)
\* Epochs of an SP3 file of an odd day (an even day's file holds one less).
EpochsPerFile == 12
\* The SP3 catalogue holds the days 1..MaxDay.
MaxDay == 2
\* The simulation runs for at most this many epoch intervals.
MaxAdvance == 7
\* Calls of Update followed once sp3_file_id_ is past the end of sp3_files_, or
\* on a manager whose buffers were never seeded.
MaxOverrun == 1

(***************************************************************************)
(* Program constants                                                       *)
(***************************************************************************)
kNumberOfInterpolation == 9
\* The literal bound of the refill loop of Update.
kUpdateLoopCount == 32
\* The validity ceiling of a query, 1e6 seconds.
kValidityCeiling_s == 1000000
\* 24 * 60 * 60, the coverage of one SP3 file.
kSp3Coverage_s == 24 * 60 * 60
\* The value of EpochTime::GetTime_s() that stands for "no time given".
kUnsetTime == 0

(***************************************************************************)
(* Vectors: 0-based functions                                              *)
(***************************************************************************)
Size(vec) == Cardinality(DOMAIN vec)

InRange(vec, i) == i \in DOMAIN vec

EmptyVec == [i \in {} |-> 0]

Assign(n, x) == [i \in 0..(n - 1) |-> x]

Max2(a, b) == IF a >= b THEN a ELSE b

Min2(a, b) == IF a <= b THEN a ELSE b

(***************************************************************************)
(* Sp3FileReader: one SP3 file.  A reader is [valid, day, gt, gn]: the     *)
(* file of a catalogue day, or (valid = FALSE) what a copy of an element   *)
(* past the end of sp3_files_ holds: one indeterminate epoch time gt and   *)
(* epoch count gn.                                                         *)
(***************************************************************************)
Sp3FileReader(day) == [valid |-> TRUE, day |-> day, gt |-> 0, gn |-> 0]

\* Spacing of the epochs of a file of the catalogue.
EpochInterval_s == kSp3Coverage_s \div EpochsPerFile

\* The file of the end-to-end scenario: a day after the catalogue's, holding
\* exactly ScenarioEpochs epochs at a spacing of ScenarioInterval_s, for
\* ScenarioSatellites satellites.
ScenarioDay == MaxDay + 1

ScenarioEpochs == 9

ScenarioInterval_s == 900

ScenarioSatellites == 2

EpochIntervalOf(file) == IF file.day = ScenarioDay THEN ScenarioInterval_s ELSE EpochInterval_s

GetStartEpochDateTime(file) == IF file.valid THEN file.day * kSp3Coverage_s ELSE file.gt

GetNumberOfEpoch(file) ==
  IF file.valid
  THEN (IF file.day = ScenarioDay THEN ScenarioEpochs
        ELSE IF file.day % 2 = 1 THEN EpochsPerFile ELSE EpochsPerFile - 1)
  ELSE file.gn

GetEpochData(file, epoch_id) ==
  IF file.valid THEN GetStartEpochDateTime(file) + epoch_id * EpochIntervalOf(file) ELSE file.gt

GetNumberOfSatellites(file) == cfg.nsat

\* The epoch nearest to time, clamped to the epochs of the file.
SearchNearestEpochId(file, time) ==
  LET d == time - GetStartEpochDateTime(file) IN
  IF d <= 0 THEN 0
  ELSE Min2(GetNumberOfEpoch(file) - 1,
            (2 * d + EpochIntervalOf(file)) \div (2 * EpochIntervalOf(file)))

GetSatellitePosition_km(file, epoch_id, sat) ==
  IF file.valid THEN (file.day * 100 + epoch_id) * 100 + sat + 1 ELSE file.gt

GetSatelliteClockOffset(file, epoch_id, sat) ==
  IF file.valid THEN 2 * ((file.day * 100 + epoch_id) * 100 + sat) + 1 ELSE file.gt

(***************************************************************************)
(* The interpolation buffers: libra::Interpolation and InterpolationOrbit  *)
(***************************************************************************)
Sample(t, v) == [t |-> t, v |-> v]

\* InterpolationOrbit(kNumberOfInterpolation): capacity W, nothing stored yet.
InterpolationOrbit == <<>>

PlaceholderClock_OneMore == [i \in 1..(kNumberOfInterpolation + 1) |-> Sample(-1, -1)]

\* libra::Interpolation(temp, temp) with temp = W times -1.0.
PlaceholderClock == [i \in 1..kNumberOfInterpolation |-> Sample(-1, -1)]

PushAndPopData(buf, t, v) ==
  LET a == Append(buf, Sample(t, v)) IN
  IF Len(a) > kNumberOfInterpolation THEN Tail(a) ELSE a

GetTimeList(buf) == [i \in 1..Len(buf) |-> buf[i].t]

(***************************************************************************)
(* Undefined behaviour: an access past the end of a vector either crashes  *)
(* the program or goes on with indeterminate data [gt, gn].                *)
(***************************************************************************)
GarbageTimes == {7}

GarbageCounts == {0, 1000000000}

Outcomes ==
  {[crash |-> TRUE, gt |-> 0, gn |-> 0]}
    \cup {[crash |-> FALSE, gt |-> t, gn |-> n] : t \in GarbageTimes, n \in GarbageCounts}

\* The outcomes of reading a buffer out of range: no epoch count is read.
ReadOutcomes == {u \in Outcomes : u.gn = 0}

GarbageReader(u) == [valid |-> FALSE, day |-> 0, gt |-> u.gt, gn |-> u.gn]

\* What a size_t member holds before anything is assigned to it.
IndeterminateSizes == {0, 1000000000}

(***************************************************************************)
(* GnssSatellites::Initialize                                              *)
(***************************************************************************)
\* The members of the manager as one record, for the loops below; sel and
\* anchor keep the file GetCurrentSp3File chose and the epoch the seeding began at.
Manager ==
  [crashed |-> FALSE,
   sel |-> -1,
   anchor |-> -1,
   n |-> number_of_calculated_gnss_satellites_,
   fid |-> sp3_file_id_,
   rid |-> reference_interpolation_id_,
   ref |-> reference_time_,
   cur |-> current_epoch_time_,
   orbit |-> orbit_,
   clock |-> clock_,
   log |-> log,
   oob |-> oob]

\* The loop of GetCurrentSp3File from index i on: the file chosen, if any.
RECURSIVE GetCurrentSp3FileFrom(_, _, _)
GetCurrentSp3FileFrom(files, current_time, i) ==
  IF i >= Size(files) THEN [found |-> FALSE, id |-> 0]
  ELSE LET diff_s == current_time - GetStartEpochDateTime(files[i]) IN
       IF diff_s < 0 THEN [found |-> FALSE, id |-> 0]
       ELSE IF diff_s < 24 * 60 * 60 THEN [found |-> TRUE, id |-> i]
       ELSE GetCurrentSp3FileFrom(files, current_time, i + 1)

GetCurrentSp3File(files, current_time) == GetCurrentSp3FileFrom(files, current_time, 0)

AnchorEpochId_AtNearest(nearest_epoch_id, old_id) == nearest_epoch_id

\* The anchor of the seeding: nearest epoch minus W/2, or the index as it was.
AnchorEpochId(nearest_epoch_id, old_id) ==
  LET half_interpolation_number == kNumberOfInterpolation \div 2 IN
  IF nearest_epoch_id >= half_interpolation_number
  THEN nearest_epoch_id - half_interpolation_number
  ELSE old_id

\* time_diff_s of lines 52 and 92: the epoch's time as an offset from reference_time_.
TimeDiff_s(file, epoch_id, reference_time) == GetEpochData(file, epoch_id) - reference_time

\* The inner loop of the seeding: one push into both buffers of every tracked satellite.
SeedPush(m, file) ==
  LET time_diff_s == TimeDiff_s(file, m.rid, m.ref) IN
  [m EXCEPT
     !.orbit = [g \in DOMAIN m.orbit |->
                  PushAndPopData(m.orbit[g], time_diff_s,
                                 1000 * GetSatellitePosition_km(file, m.rid, g))],
     !.clock = [g \in DOMAIN m.clock |->
                  PushAndPopData(m.clock[g], time_diff_s,
                                 GetSatelliteClockOffset(file, m.rid, g))]]

EpochsExhausted_PastEnd(epoch_id, file) == epoch_id > GetNumberOfEpoch(file)

\* Whether the epoch index has run off the file that was read.
EpochsExhausted(epoch_id, file) == epoch_id >= GetNumberOfEpoch(file)

\* A file update that advanced the epoch index by two.
FileUpdate_SkipsEpoch(m, file, files, u) ==
  LET rid1 == m.rid + 2 IN
  IF ~EpochsExhausted(rid1, file)
  THEN [m |-> [m EXCEPT !.rid = rid1], file |-> file]
  ELSE LET fid1 == m.fid + 1
           over == fid1 >= Size(files)
       IN [m |-> [m EXCEPT
                    !.rid = 0,
                    !.fid = fid1,
                    !.log = IF over THEN [@ EXCEPT !.range_over = @ + 1] ELSE @,
                    !.oob = IF over THEN @ \cup {"sp3_files_"} ELSE @,
                    !.crashed = over /\ u.crash],
           file |-> IF over THEN GarbageReader(u) ELSE files[fid1]]

\* A file update that moved reference_time_ to the start of the file rolled to.
FileUpdate_ReAnchors(m, file, files, u) ==
  LET rid1 == m.rid + 1 IN
  IF ~EpochsExhausted(rid1, file)
  THEN [m |-> [m EXCEPT !.rid = rid1], file |-> file]
  ELSE LET fid1 == m.fid + 1
           over == fid1 >= Size(files)
       IN [m |-> [m EXCEPT
                    !.rid = 0,
                    !.fid = fid1,
                    !.ref = IF over THEN @ ELSE GetStartEpochDateTime(files[fid1]),
                    !.log = IF over THEN [@ EXCEPT !.range_over = @ + 1] ELSE @,
                    !.oob = IF over THEN @ \cup {"sp3_files_"} ELSE @,
                    !.crashed = over /\ u.crash],
           file |-> IF over THEN GarbageReader(u) ELSE files[fid1]]

\* "File update": advance the epoch index, roll to the next file when the
\* file's epochs are used up, and read that file from sp3_files_ (line 66 / 106).
\* Returns the manager and the reader now in hand.
FileUpdate(m, file, files, u) ==
  LET rid1 == m.rid + 1 IN
  IF ~EpochsExhausted(rid1, file)
  THEN [m |-> [m EXCEPT !.rid = rid1], file |-> file]
  ELSE LET fid1 == m.fid + 1
           over == fid1 >= Size(files)
       IN [m |-> [m EXCEPT
                    !.rid = 0,
                    !.fid = fid1,
                    !.log = IF over THEN [@ EXCEPT !.range_over = @ + 1] ELSE @,
                    !.oob = IF over THEN @ \cup {"sp3_files_"} ELSE @,
                    !.crashed = over /\ u.crash],
           file |-> IF over THEN GarbageReader(u) ELSE files[fid1]]

\* The seeding loop, from iteration i on.
RECURSIVE SeedLoop(_, _, _, _, _)
SeedLoop(i, m, file, files, u) ==
  IF i >= kNumberOfInterpolation \/ m.crashed THEN m
  ELSE LET r == FileUpdate(SeedPush(m, file), file, files, u)
       IN SeedLoop(i + 1, r.m, r.file, files, u)

Initialize(m0, files, start_time, u) ==
  LET m1 == [m0 EXCEPT !.cur = start_time]
      \* line 25: sp3_files_[0], whatever the list holds
      empty == Size(files) = 0
      m2 == IF empty THEN [m1 EXCEPT !.oob = @ \cup {"sp3_files_"}, !.crashed = u.crash]
            ELSE m1
      sel == GetCurrentSp3File(files, start_time)
  IN
  IF m2.crashed THEN m2
  ELSE IF ~sel.found THEN [m2 EXCEPT !.log = [@ EXCEPT !.mismatch = @ + 1]]
  ELSE
    LET initial_sp3_file == files[sel.id]
        n == GetNumberOfSatellites(initial_sp3_file)
        rid == AnchorEpochId(SearchNearestEpochId(initial_sp3_file, start_time), m2.rid)
        m3 == [m2 EXCEPT
                 !.sel = sel.id,
                 !.anchor = rid,
                 !.fid = sel.id,
                 !.n = n,
                 !.rid = rid,
                 !.ref = GetEpochData(initial_sp3_file, rid),
                 !.orbit = Assign(n, InterpolationOrbit),
                 !.clock = Assign(n, PlaceholderClock)]
    IN SeedLoop(0, m3, initial_sp3_file, files, u)

(***************************************************************************)
(* GnssSatellites::Update                                                  *)
(***************************************************************************)
RefillTriggered_AtMidpoint(diff_s, medium_time_s) == diff_s >= medium_time_s

\* The refill trigger of line 89.
RefillTriggered(diff_s, medium_time_s) == diff_s > medium_time_s

\* The satellite indices the refill loop of line 90 runs over.
RefillTargets == 0..(kUpdateLoopCount - 1)

\* The refill loop: one push into both buffers of every index of the loop.
\* An index past the end of orbit_ / clock_ is an access out of range.
RefillPush(m, file, u) ==
  LET time_diff_s == TimeDiff_s(file, m.rid, m.ref)
      missing == RefillTargets \ DOMAIN m.orbit
  IN [m EXCEPT
        !.orbit = [g \in DOMAIN m.orbit |->
                     IF g \in RefillTargets
                     THEN PushAndPopData(m.orbit[g], time_diff_s,
                                         1000 * GetSatellitePosition_km(file, m.rid, g))
                     ELSE m.orbit[g]],
        !.clock = [g \in DOMAIN m.clock |->
                     IF g \in RefillTargets
                     THEN PushAndPopData(m.clock[g], time_diff_s,
                                         GetSatelliteClockOffset(file, m.rid, g))
                     ELSE m.clock[g]],
        !.oob = IF missing # {} THEN @ \cup {"orbit_", "clock_"} ELSE @,
        !.crashed = missing # {} /\ u.crash]

\* Whether orbit_[0].GetTimeList()[4] reads inside the vectors.
MediumInRange(orbit) == InRange(orbit, 0) /\ Len(orbit[0]) >= 4 + 1

MediumTime(orbit, u) == IF MediumInRange(orbit) THEN GetTimeList(orbit[0])[4 + 1] ELSE u.gt

UpdateBody(m0, files, time, u) ==
  LET m1 == [m0 EXCEPT !.cur = time]
      \* line 85: sp3_files_[sp3_file_id_]
      file_in_range == InRange(files, m1.fid)
      m2 == IF file_in_range THEN m1
            ELSE [m1 EXCEPT !.oob = @ \cup {"sp3_files_"}, !.crashed = u.crash]
      sp3_file == IF file_in_range THEN files[m1.fid] ELSE GarbageReader(u)
      diff_s == time - m1.ref
      \* line 88
      m3 == IF MediumInRange(m2.orbit) \/ m2.crashed THEN m2
            ELSE [m2 EXCEPT !.oob = @ \cup {"orbit_"}, !.crashed = u.crash]
      medium_time_s == MediumTime(m2.orbit, u)
  IN
  IF m3.crashed \/ ~RefillTriggered(diff_s, medium_time_s) THEN m3
  ELSE LET m4 == RefillPush(m3, sp3_file, u) IN
       IF m4.crashed THEN m4 ELSE FileUpdate(m4, sp3_file, files, u).m

(***************************************************************************)
(* GnssSatellites::GetPosition_ecef_m and GetClock_s                       *)
(***************************************************************************)
\* The guard of lines 114 and 132: the satellite is not calculated.
NotCalculated(gnss_satellite_id, n) == gnss_satellite_id > n

TargetTime_AsGiven(time) == time

\* target_time of lines 116-122 and 134-140.
TargetTime(time) == IF time = kUnsetTime THEN current_epoch_time_ ELSE time

OutOfWindow_CeilingExcluded(diff_s) == diff_s < 0 \/ diff_s >= kValidityCeiling_s

OutOfWindow(diff_s) == diff_s < 0 \/ diff_s > kValidityCeiling_s

\* What a getter does: return the sentinel (zero vector, 0.0), or evaluate
\* the buffer of index "indexed" at offset "at".
Sentinel == [sentinel |-> TRUE, indexed |-> -1, at |-> 0]

Getter(buffers, gnss_satellite_id, time) ==
  IF NotCalculated(gnss_satellite_id, number_of_calculated_gnss_satellites_) THEN Sentinel
  ELSE LET diff_s == TargetTime(time) - reference_time_ IN
       IF OutOfWindow(diff_s) THEN Sentinel
       ELSE [sentinel |-> FALSE, indexed |-> gnss_satellite_id, at |-> diff_s]

\* CalcPositionWithTrigonometric(diff_s, tau / kOrbitalPeriodCorrection_s) of orbit_[id].
GetPosition_ecef_m(gnss_satellite_id, time) == Getter(orbit_, gnss_satellite_id, time)

\* CalcPolynomial(diff_s) * 1e-6 of clock_[id].
GetClock_s(gnss_satellite_id, time) == Getter(clock_, gnss_satellite_id, time)

(***************************************************************************)
(* The state machine                                                       *)
(***************************************************************************)
Days == 1..MaxDay

\* Where in its day the simulation starts: at the first, the middle or the last epoch.
StartEpochIds == {0, EpochsPerFile \div 2, EpochsPerFile - 1}

SatelliteCounts == {kUpdateLoopCount - 1, kUpdateLoopCount, kUpdateLoopCount + 1}

\* Some file of the days start_date..end_date covers the start time.
Covered(c) ==
  \E d \in c.start_date..c.end_date :
    d * kSp3Coverage_s <= c.start_time /\ c.start_time < (d + 1) * kSp3Coverage_s

\* The configurations.  With the calculation disabled nothing else is read;
\* when no file covers the start time no file is read, and neither the number
\* of satellites nor the epoch of the start matters.
Configs ==
  {c \in [calc : BOOLEAN, start_date : Days, end_date : Days, nsat : SatelliteCounts,
          start_time : {d * kSp3Coverage_s + k * EpochInterval_s :
                          d \in Days, k \in StartEpochIds}] :
     /\ c.calc \/ (c.start_date = 1 /\ c.end_date = 1 /\ c.start_time = kSp3Coverage_s)
     /\ (c.calc /\ Covered(c))
          \/ (c.nsat = kUpdateLoopCount /\ c.start_time % kSp3Coverage_s = 0)}

NoEv ==
  [op |-> "none", id |-> 0, time |-> 0, sentinel |-> FALSE, indexed |-> -1, at |-> 0,
   out_of_range |-> FALSE, diff |-> 0, medium |-> 0, trigger |-> FALSE,
   target |-> 0, logged |-> {}]

NoLog == [config |-> 0, mismatch |-> 0, range_over |-> 0]

NoCall == [op |-> "none"]

\* No OBC and no I2C port in the run.
NoObc ==
  /\ uart_ports_ = EmptyVec
  /\ i2c_ports_ = EmptyVec
  /\ gpio_ports_ = EmptyVec
  /\ obc = "running"
  /\ call = NoCall
  /\ i2c_port = EmptyVec

\* The constructed GnssSatellites object: nothing read, the vectors empty.
Init ==
  /\ phase = "new"
  /\ cfg \in Configs
  /\ sim_time = cfg.start_time
  /\ is_calc_enabled_ = cfg.calc
  /\ sp3_files_ = EmptyVec
  /\ number_of_calculated_gnss_satellites_ \in IndeterminateSizes
  /\ sp3_file_id_ = number_of_calculated_gnss_satellites_
  /\ reference_time_ = 0
  /\ reference_interpolation_id_ = 0
  /\ current_epoch_time_ = 0
  /\ orbit_ = EmptyVec
  /\ clock_ = EmptyVec
  /\ log = NoLog
  /\ oob = {}
  /\ overrun = 0
  /\ ev = NoEv
  /\ NoObc

IsCalcEnabled_Always == TRUE

\* GnssSatellites::IsCalcEnabled().
IsCalcEnabled == is_calc_enabled_

\* Writes the members of m back.
Commit(m) ==
  /\ phase' = IF m.crashed THEN "crashed" ELSE "running"
  /\ number_of_calculated_gnss_satellites_' = m.n
  /\ sp3_file_id_' = m.fid
  /\ reference_interpolation_id_' = m.rid
  /\ reference_time_' = m.ref
  /\ current_epoch_time_' = m.cur
  /\ orbit_' = m.orbit
  /\ clock_' = m.clock
  /\ log' = m.log
  /\ oob' = m.oob

\* The list of readers InitGnssSatellites builds: one per day from start_date to end_date.
ReadAllProductFiles(start_date, end_date) ==
  [i \in 0..(end_date - start_date) |-> Sp3FileReader(start_date + i)]

InitGnssSatellites ==
  /\ phase = "new"
  /\ UNCHANGED <<obc_vars, i2c_port>>
  /\ UNCHANGED <<cfg, sim_time, is_calc_enabled_, overrun>>
  /\ IF ~IsCalcEnabled
     THEN /\ phase' = "running"
          /\ ev' = [NoEv EXCEPT !.op = "Initialize", !.time = cfg.start_time]
          /\ UNCHANGED <<sp3_files_, number_of_calculated_gnss_satellites_, sp3_file_id_,
                         reference_time_, reference_interpolation_id_, current_epoch_time_,
                         orbit_, clock_, log, oob>>
     ELSE \E u \in Outcomes :
            LET sp3_file_readers == ReadAllProductFiles(cfg.start_date, cfg.end_date)
                m0 == [Manager EXCEPT
                         !.log = IF cfg.start_date > cfg.end_date
                                 THEN [@ EXCEPT !.config = @ + 1] ELSE @]
                m == Initialize(m0, sp3_file_readers, cfg.start_time, u)
            IN /\ sp3_files_' = sp3_file_readers
               /\ Commit(m)
               /\ ev' = [NoEv EXCEPT !.op = "Initialize", !.time = cfg.start_time,
                                     !.id = m.sel, !.at = m.anchor]

\* The steps the simulation clock takes between two calls of Update.
TimeSteps == {0, EpochInterval_s, 3 * EpochInterval_s}

Update ==
  /\ phase = "running"
  /\ overrun < MaxOverrun
  /\ UNCHANGED <<obc_vars, i2c_port>>
  /\ \E dt \in TimeSteps, u \in Outcomes :
       LET time == sim_time + dt IN
       /\ time <= cfg.start_time + MaxAdvance * EpochInterval_s
       /\ sim_time' = time
       /\ UNCHANGED <<cfg, is_calc_enabled_, sp3_files_>>
       /\ IF ~IsCalcEnabled
          THEN /\ ev' = [NoEv EXCEPT !.op = "Update", !.time = time]
               /\ UNCHANGED <<overrun, phase, number_of_calculated_gnss_satellites_, sp3_file_id_,
                              reference_time_, reference_interpolation_id_,
                              current_epoch_time_, orbit_, clock_, log, oob>>
          ELSE /\ Commit(UpdateBody(Manager, sp3_files_, time, u))
               /\ overrun' = IF InRange(sp3_files_, sp3_file_id_) /\ MediumInRange(orbit_)
                             THEN overrun ELSE overrun + 1
               /\ ev' = [NoEv EXCEPT
                           !.op = "Update", !.time = time,
                           !.diff = time - reference_time_,
                           !.medium = MediumTime(orbit_, u),
                           !.trigger = RefillTriggered(time - reference_time_,
                                                       MediumTime(orbit_, u))]

\* The calls of the getters the model makes: satellite id and time.
QueryCalls ==
  LET n == cfg.nsat IN
  {<<0, kUnsetTime>>,
   <<0, cfg.start_time>>,
   <<n - 1, reference_time_ - 1>>,
   <<n - 1, reference_time_ + kValidityCeiling_s>>,
   <<n - 1, reference_time_ + kValidityCeiling_s + 1>>,
   <<n, reference_time_>>,
   <<n + 1, reference_time_>>}

\* A getter that kept the resolved time in current_epoch_time_.
Query_StoresTarget(op, buffers, id, time, u) ==
  LET r == Getter(buffers, id, time)
      out_of_range == ~r.sentinel /\ ~InRange(buffers, r.indexed)
  IN /\ ev' = [NoEv EXCEPT !.op = op, !.id = id, !.time = time, !.sentinel = r.sentinel,
                           !.indexed = r.indexed, !.at = r.at,
                           !.out_of_range = out_of_range, !.target = TargetTime(time)]
     /\ phase' = IF out_of_range /\ u.crash THEN "crashed" ELSE phase
     /\ current_epoch_time_' = TargetTime(time)
     /\ UNCHANGED <<cfg, sim_time, is_calc_enabled_, sp3_files_, overrun, oob,
                    number_of_calculated_gnss_satellites_, sp3_file_id_, reference_time_,
                    reference_interpolation_id_, orbit_, clock_, log>>

\* A call of a getter: the members are const; an index past the end of the
\* vector is an access out of range.
Query(op, buffers, id, time, u) ==
  LET r == Getter(buffers, id, time)
      out_of_range == ~r.sentinel /\ ~InRange(buffers, r.indexed)
  IN /\ ev' = [NoEv EXCEPT !.op = op, !.id = id, !.time = time, !.sentinel = r.sentinel,
                           !.indexed = r.indexed, !.at = r.at,
                           !.out_of_range = out_of_range, !.target = TargetTime(time)]
     /\ phase' = IF out_of_range /\ u.crash THEN "crashed" ELSE phase
     /\ UNCHANGED <<cfg, sim_time, is_calc_enabled_, sp3_files_, overrun, oob,
                    number_of_calculated_gnss_satellites_, sp3_file_id_, reference_time_,
                    reference_interpolation_id_, current_epoch_time_, orbit_, clock_, log>>

GetPosition ==
  /\ phase = "running"
  /\ UNCHANGED <<obc_vars, i2c_port>>
  /\ \E q \in QueryCalls, u \in ReadOutcomes :
       Query("GetPosition_ecef_m", orbit_, q[1], q[2], u)

GetClock ==
  /\ phase = "running"
  /\ UNCHANGED <<obc_vars, i2c_port>>
  /\ \E q \in QueryCalls, u \in ReadOutcomes :
       Query("GetClock_s", clock_, q[1], q[2], u)

\* kNumberOfGpsSatellite, the bound of the loops of GetLogHeader and GetLogValue.
kNumberOfGpsSatellite == 32

\* The satellite ids GetLogHeader writes a position and a clock_offset column for.
GetLogHeader == 0..(kNumberOfGpsSatellite - 1)

\* GetLogValue: one call of each getter, with no time given, for every index of the loop.
GetLogValue ==
  /\ phase = "running"
  /\ UNCHANGED <<obc_vars, i2c_port>>
  /\ \E u \in ReadOutcomes :
       LET ids == 0..(kNumberOfGpsSatellite - 1)
           out_of_range ==
             \E gps_index \in ids :
               \/ LET r == GetPosition_ecef_m(gps_index, kUnsetTime)
                  IN ~r.sentinel /\ ~InRange(orbit_, r.indexed)
               \/ LET r == GetClock_s(gps_index, kUnsetTime)
                  IN ~r.sentinel /\ ~InRange(clock_, r.indexed)
       IN /\ ev' = [NoEv EXCEPT !.op = "GetLogValue", !.logged = ids,
                                !.out_of_range = out_of_range,
                                !.target = TargetTime(kUnsetTime)]
          /\ phase' = IF out_of_range /\ u.crash THEN "crashed" ELSE phase
          /\ UNCHANGED <<cfg, sim_time, is_calc_enabled_, sp3_files_, overrun, oob,
                         number_of_calculated_gnss_satellites_, sp3_file_id_, reference_time_,
                         reference_interpolation_id_, current_epoch_time_, orbit_, clock_, log>>

Next == InitGnssSatellites \/ Update \/ GetPosition \/ GetClock \/ GetLogValue

Spec == Init /\ [][Next]_vars

\* The end-to-end scenario: one file of exactly W epochs at 900 s spacing, two
\* satellites, the simulation starting at the file's first epoch.
ScenarioConfig ==
  [calc |-> TRUE, start_date |-> ScenarioDay, end_date |-> ScenarioDay,
   nsat |-> ScenarioSatellites, start_time |-> ScenarioDay * kSp3Coverage_s]

ScenarioInit ==
  /\ phase = "new"
  /\ cfg = ScenarioConfig
  /\ sim_time = cfg.start_time
  /\ is_calc_enabled_ = cfg.calc
  /\ sp3_files_ = EmptyVec
  /\ number_of_calculated_gnss_satellites_ \in IndeterminateSizes
  /\ sp3_file_id_ = number_of_calculated_gnss_satellites_
  /\ reference_time_ = 0
  /\ reference_interpolation_id_ = 0
  /\ current_epoch_time_ = 0
  /\ orbit_ = EmptyVec
  /\ clock_ = EmptyVec
  /\ log = NoLog
  /\ oob = {}
  /\ overrun = 0
  /\ ev = NoEv
  /\ NoObc

ScenarioSpec == ScenarioInit /\ [][Next]_vars

(***************************************************************************)
(* I2CPort (I2CPort.cpp): the registers of the devices on one I2C bus.     *)
(* A port is [max_register_number_, saved_reg_addr_, device_registers_];   *)
(* device_registers_ is a std::map keyed by <<i2c_addr, reg_addr>>.        *)
(***************************************************************************)
\* The largest register count an I2CPort is constructed with in the model.
MaxRegisterNumber == 2

\* unsigned char arithmetic.
UChar(x) == x % 256

\* std::map::operator[] as a read: the value at key, 0 for a key the map lacks.
MapAt(map, key) == IF key \in DOMAIN map THEN map[key] ELSE 0

\* std::map::operator[] as an assignment; a read of a key the map lacks inserts it with 0.
MapSet(map, key, value) ==
  [k \in DOMAIN map \cup {key} |-> IF k = key THEN value ELSE map[k]]

\* The member initialisers of the class: max_register_number_ and saved_reg_addr_.
kDefaultMaxRegisterNumber == 255

kDefaultSavedRegAddr == 0

\* I2CPort(max_register_number); I2CPort(void) is I2CPort(kDefaultMaxRegisterNumber).
I2CPort(max_register_number) ==
  [max_register_number_ |-> max_register_number,
   saved_reg_addr_ |-> kDefaultSavedRegAddr,
   device_registers_ |-> EmptyVec]

RegisterDevice(p, i2c_addr) ==
  LET new == {<<i2c_addr, i>> : i \in 0..(p.max_register_number_ - 1)} IN
  [p EXCEPT !.device_registers_ =
     [k \in DOMAIN p.device_registers_ \cup new |->
        IF k \in new THEN 0 ELSE p.device_registers_[k]]]

\* WriteRegister(i2c_addr, reg_addr): the port after the call and the value returned.
WriteRegister_Address(p, i2c_addr, reg_addr) ==
  IF reg_addr >= p.max_register_number_ THEN [port |-> p, ret |-> 0]
  ELSE [port |-> [p EXCEPT !.saved_reg_addr_ = reg_addr], ret |-> 1]

WriteRegister_AcceptsLimit(p, i2c_addr, reg_addr, value) ==
  IF reg_addr > p.max_register_number_ THEN [port |-> p, ret |-> 0]
  ELSE [port |-> [p EXCEPT
                    !.saved_reg_addr_ = reg_addr,
                    !.device_registers_ = MapSet(@, <<i2c_addr, reg_addr>>, value)],
        ret |-> 1]

\* WriteRegister(i2c_addr, reg_addr, value).
WriteRegister(p, i2c_addr, reg_addr, value) ==
  IF reg_addr >= p.max_register_number_ THEN [port |-> p, ret |-> 0]
  ELSE [port |-> [p EXCEPT
                    !.saved_reg_addr_ = reg_addr,
                    !.device_registers_ = MapSet(@, <<i2c_addr, reg_addr>>, value)],
        ret |-> 1]

ReadRegister_Next_WrapsLate(p, i2c_addr) ==
  LET key == <<i2c_addr, p.saved_reg_addr_>>
      ret == MapAt(p.device_registers_, key)
      saved == UChar(p.saved_reg_addr_ + 1)
  IN [port |-> [p EXCEPT
                  !.device_registers_ = MapSet(@, key, ret),
                  !.saved_reg_addr_ = IF saved > p.max_register_number_ THEN 0 ELSE saved],
      ret |-> ret]

\* ReadRegister(i2c_addr): read at the saved address, then advance it.
ReadRegister_Next(p, i2c_addr) ==
  LET key == <<i2c_addr, p.saved_reg_addr_>>
      ret == MapAt(p.device_registers_, key)
      saved == UChar(p.saved_reg_addr_ + 1)
  IN [port |-> [p EXCEPT
                  !.device_registers_ = MapSet(@, key, ret),
                  !.saved_reg_addr_ = IF saved >= p.max_register_number_ THEN 0 ELSE saved],
      ret |-> ret]

\* ReadRegister(i2c_addr, reg_addr).
ReadRegister(p, i2c_addr, reg_addr) ==
  IF reg_addr >= p.max_register_number_ THEN [port |-> p, ret |-> 0]
  ELSE LET key == <<i2c_addr, reg_addr>>
           ret == MapAt(p.device_registers_, key)
       IN [port |-> [p EXCEPT
                       !.saved_reg_addr_ = reg_addr,
                       !.device_registers_ = MapSet(@, key, ret)],
           ret |-> ret]

\* The device addresses, register addresses and values of the calls.
I2cAddrs == {1, 2}

RegAddrs == 0..MaxRegisterNumber

RegisterValues == {5, 9}

\* No GNSS manager in the run.
NoGnss ==
  /\ phase = "new"
  /\ cfg = ScenarioConfig
  /\ sim_time = 0
  /\ is_calc_enabled_ = FALSE
  /\ sp3_files_ = EmptyVec
  /\ number_of_calculated_gnss_satellites_ = 0
  /\ sp3_file_id_ = 0
  /\ reference_time_ = 0
  /\ reference_interpolation_id_ = 0
  /\ current_epoch_time_ = 0
  /\ orbit_ = EmptyVec
  /\ clock_ = EmptyVec
  /\ log = NoLog
  /\ oob = {}
  /\ overrun = 0
  /\ ev = NoEv

I2cPortInit ==
  /\ NoGnss
  /\ uart_ports_ = EmptyVec
  /\ i2c_ports_ = EmptyVec
  /\ gpio_ports_ = EmptyVec
  /\ obc = "running"
  /\ call = NoCall
  /\ i2c_port \in {I2CPort(max_register_number) : max_register_number \in 0..MaxRegisterNumber}

\* A call of a method of i2c_port: the port after it and what was called and returned.
PortCall(op, i2c_addr, reg_addr, r) ==
  /\ i2c_port' = r.port
  /\ call' = [op |-> op, i2c_addr |-> i2c_addr, reg_addr |-> reg_addr, ret |-> r.ret]
  /\ UNCHANGED <<gnss_vars, uart_ports_, i2c_ports_, gpio_ports_, obc>>

PortRegisterDevice ==
  \E a \in I2cAddrs :
    PortCall("RegisterDevice", a, 0, [port |-> RegisterDevice(i2c_port, a), ret |-> 0])

PortWriteRegisterAddress ==
  \E a \in I2cAddrs, r \in RegAddrs :
    PortCall("WriteRegister_Address", a, r, WriteRegister_Address(i2c_port, a, r))

PortWriteRegister ==
  \E a \in I2cAddrs, r \in RegAddrs, v \in RegisterValues :
    PortCall("WriteRegister", a, r, WriteRegister(i2c_port, a, r, v))

PortReadRegisterNext ==
  \E a \in I2cAddrs :
    PortCall("ReadRegister_Next", a, i2c_port.saved_reg_addr_, ReadRegister_Next(i2c_port, a))

PortReadRegister ==
  \E a \in I2cAddrs, r \in RegAddrs :
    PortCall("ReadRegister", a, r, ReadRegister(i2c_port, a, r))

I2cPortNext ==
  \/ PortRegisterDevice
  \/ PortWriteRegisterAddress
  \/ PortWriteRegister
  \/ PortReadRegisterNext
  \/ PortReadRegister

I2cPortSpec == I2cPortInit /\ [][I2cPortNext]_vars

(***************************************************************************)
(* OBC (on_board_computer.cpp): the port maps of the on-board computer.    *)
(* A map is a function over the keys it holds; a pointer is <<>> for       *)
(* nullptr and <<object>> for a live object.  std::map::operator[] on a    *)
(* key the map lacks inserts it with nullptr.                              *)
(***************************************************************************)
nullptr == <<>>

\* map[port_id] as the code reads it, and the map after the read.
PortAt(map, port_id) == IF port_id \in DOMAIN map THEN map[port_id] ELSE nullptr

Touched(map, port_id) == MapSet(map, port_id, PortAt(map, port_id))

\* map.erase(port_id).
Erase(map, port_id) == [k \in DOMAIN map \ {port_id} |-> map[k]]

PortIds == {0, 1}

\* Register addresses and data of the component calls; the reads ask for 0..MaxLength bytes.
ObcRegAddrs == {0, 1, kDefaultMaxRegisterNumber}

MaxLength == 2

WrittenData == {<<>>, <<5>>, <<9, 5>>}

\* The I2C port and the device on its bus of the component calls.
I2cPortIds == {0}

ObcI2cAddrs == {1}

\* What a call through a null pointer leaves in the output buffer when the program goes on.
IndeterminateBytes == {0, 170}

\* The record of an OBC call: accessed is "none" when no port object was used,
\* "port" for a live one and "null" when a null pointer was dereferenced.
ObcCall(op, port_id, ret, accessed) ==
  [op |-> op, port_id |-> port_id, ret |-> ret, accessed |-> accessed,
   i2c_address |-> 0, reg_address |-> 0, data |-> <<>>, length |-> 0, out |-> <<>>]

I2cCall(op, port_id, accessed, i2c_address, reg_address, data, length, out) ==
  [ObcCall(op, port_id, 0, accessed) EXCEPT
     !.i2c_address = i2c_address, !.reg_address = reg_address,
     !.data = data, !.length = length, !.out = out]

ObcRunning == obc = "running"

I2cConnectPort ==
  \E port_id \in I2cPortIds, i2c_address \in ObcI2cAddrs :
    LET p == IF PortAt(i2c_ports_, port_id) # nullptr
             THEN PortAt(i2c_ports_, port_id)[1]
             ELSE I2CPort(kDefaultMaxRegisterNumber)
    IN /\ ObcRunning
       /\ i2c_ports_' = MapSet(i2c_ports_, port_id, <<RegisterDevice(p, i2c_address)>>)
       /\ call' = I2cCall("I2cConnectPort", port_id, "port", i2c_address, 0, <<>>, 0, <<>>)
       /\ UNCHANGED <<gnss_vars, uart_ports_, gpio_ports_, obc, i2c_port>>

I2cCloseComPort ==
  \E port_id \in I2cPortIds :
    /\ ObcRunning
    /\ IF PortAt(i2c_ports_, port_id) = nullptr
       THEN /\ i2c_ports_' = Touched(i2c_ports_, port_id)
            /\ call' = ObcCall("I2cCloseComPort", port_id, -1, "none")
       ELSE /\ i2c_ports_' = Erase(i2c_ports_, port_id)
            /\ call' = ObcCall("I2cCloseComPort", port_id, 0, "port")
    /\ UNCHANGED <<gnss_vars, uart_ports_, gpio_ports_, obc, i2c_port>>

\* The loop of I2cComponentWriteRegister on a live port.
RECURSIVE WriteAll(_, _, _, _)
WriteAll(p, i2c_address, reg_address, data) ==
  IF data = <<>> THEN p
  ELSE WriteAll(WriteRegister(p, i2c_address, reg_address, Head(data)).port,
                i2c_address, reg_address, Tail(data))

\* The loop of I2cComponentReadRegister on a live port: the port after it and the bytes read.
RECURSIVE ReadAll(_, _, _, _)
ReadAll(p, i2c_address, reg_address, length) ==
  IF length = 0 THEN [port |-> p, out |-> <<>>]
  ELSE LET r == ReadRegister(p, reg_address, i2c_address)
           rest == ReadAll(r.port, i2c_address, reg_address, length - 1)
       IN [port |-> rest.port, out |-> <<r.ret>> \o rest.out]

\* A member call through a null pointer: the program stops, or goes on with
\* whatever the call left in the output buffer.
NullDereference(op, port_id, i2c_address, reg_address, data, length) ==
  /\ i2c_ports_' = Touched(i2c_ports_, port_id)
  /\ \/ /\ obc' = "crashed"
        /\ call' = I2cCall(op, port_id, "null", i2c_address, reg_address, data, length, <<>>)
     \/ /\ obc' = obc
        /\ \E b \in IndeterminateBytes :
             call' = I2cCall(op, port_id, "null", i2c_address, reg_address, data, length,
                             [i \in 1..length |-> b])

I2cComponentWriteRegister ==
  \E port_id \in I2cPortIds, i2c_address \in ObcI2cAddrs, reg_address \in ObcRegAddrs, data \in WrittenData :
    LET i2c_port_ptr == PortAt(i2c_ports_, port_id) IN
    /\ ObcRunning
    /\ IF data = <<>>
       THEN /\ i2c_ports_' = Touched(i2c_ports_, port_id)
            /\ call' = I2cCall("I2cComponentWriteRegister", port_id, "none",
                               i2c_address, reg_address, data, 0, <<>>)
            /\ obc' = obc
       ELSE IF i2c_port_ptr = nullptr
       THEN NullDereference("I2cComponentWriteRegister", port_id, i2c_address, reg_address, data, 0)
       ELSE /\ i2c_ports_' = MapSet(i2c_ports_, port_id,
                                    <<WriteAll(i2c_port_ptr[1], i2c_address, reg_address, data)>>)
            /\ call' = I2cCall("I2cComponentWriteRegister", port_id, "port",
                               i2c_address, reg_address, data, 0, <<>>)
            /\ obc' = obc
    /\ UNCHANGED <<gnss_vars, uart_ports_, gpio_ports_, i2c_port>>

I2cComponentReadRegister ==
  \E port_id \in I2cPortIds, i2c_address \in ObcI2cAddrs, reg_address \in ObcRegAddrs, length \in 0..MaxLength :
    LET i2c_port_ptr == PortAt(i2c_ports_, port_id) IN
    /\ ObcRunning
    /\ IF length = 0
       THEN /\ i2c_ports_' = Touched(i2c_ports_, port_id)
            /\ call' = I2cCall("I2cComponentReadRegister", port_id, "none",
                               i2c_address, reg_address, <<>>, 0, <<>>)
            /\ obc' = obc
       ELSE IF i2c_port_ptr = nullptr
       THEN NullDereference("I2cComponentReadRegister", port_id, i2c_address, reg_address, <<>>, length)
       ELSE LET r == ReadAll(i2c_port_ptr[1], i2c_address, reg_address, length) IN
            /\ i2c_ports_' = MapSet(i2c_ports_, port_id, <<r.port>>)
            /\ call' = I2cCall("I2cComponentReadRegister", port_id, "port",
                               i2c_address, reg_address, <<>>, length, r.out)
            /\ obc' = obc
    /\ UNCHANGED <<gnss_vars, uart_ports_, gpio_ports_, i2c_port>>

\* I2cPort::ReadCommand copies from the command buffer of the port, which the
\* register model does not hold: the call uses the port and changes no register.
I2cComponentReadCommand ==
  \E port_id \in I2cPortIds, i2c_address \in ObcI2cAddrs, length \in 0..MaxLength :
    /\ ObcRunning
    /\ IF PortAt(i2c_ports_, port_id) = nullptr
       THEN NullDereference("I2cComponentReadCommand", port_id, i2c_address, 0, <<>>, length)
       ELSE /\ i2c_ports_' = i2c_ports_
            /\ call' = I2cCall("I2cComponentReadCommand", port_id, "port",
                               i2c_address, 0, <<>>, length, <<>>)
            /\ obc' = obc
    /\ UNCHANGED <<gnss_vars, uart_ports_, gpio_ports_, i2c_port>>

ObcInit == NoGnss /\ NoObc

ObcI2cNext ==
  \/ I2cConnectPort
  \/ I2cCloseComPort
  \/ I2cComponentWriteRegister
  \/ I2cComponentReadRegister
  \/ I2cComponentReadCommand

ObcI2cSpec == ObcInit /\ [][ObcI2cNext]_vars

(***************************************************************************)
(* OBC: the UART and GPIO ports.  A UartPort is its two buffer sizes and   *)
(* the number of bytes queued in each direction; a GpioPort is its id and  *)
(* its level.                                                              *)
(***************************************************************************)
UartPort(tx_buffer_size, rx_buffer_size) ==
  [tx_buffer_size |-> tx_buffer_size, rx_buffer_size |-> rx_buffer_size, tx |-> 0, rx |-> 0]

\* The port after the call and the number of bytes moved.
WriteTx(port, length) ==
  LET n == Min2(length, port.tx_buffer_size - port.tx) IN
  [port |-> [port EXCEPT !.tx = @ + n], ret |-> n]

ReadTx(port, length) ==
  LET n == Min2(length, port.tx) IN
  [port |-> [port EXCEPT !.tx = @ - n], ret |-> n]

WriteRx(port, length) ==
  LET n == Min2(length, port.rx_buffer_size - port.rx) IN
  [port |-> [port EXCEPT !.rx = @ + n], ret |-> n]

ReadRx(port, length) ==
  LET n == Min2(length, port.rx) IN
  [port |-> [port EXCEPT !.rx = @ - n], ret |-> n]

GpioPort(port_id) == [port_id |-> port_id, is_high |-> FALSE]

DigitalWrite(port, is_high) == [port |-> [port EXCEPT !.is_high = is_high], ret |-> 0]

DigitalRead(port) == [port |-> port, ret |-> port.is_high]

\* The buffer sizes ConnectComPort is called with.
BufferSizes == {<<1, 1>>, <<2, 1>>}

AlreadyUsed_Never(map, port_id) == FALSE

\* `ports[port_id] != nullptr`: the port is already used.
AlreadyUsed(map, port_id) == PortAt(map, port_id) # nullptr

NotConnected_Unchecked(port) == FALSE

\* `port == nullptr`: the early return of the data operations.
NotConnected(port) == port = nullptr

ConnectComPort ==
  \E port_id \in PortIds, size \in BufferSizes :
    /\ ObcRunning
    /\ IF AlreadyUsed(uart_ports_, port_id)
       THEN /\ uart_ports_' = uart_ports_
            /\ call' = ObcCall("ConnectComPort", port_id, -1, "none")
       ELSE /\ uart_ports_' = MapSet(uart_ports_, port_id, <<UartPort(size[1], size[2])>>)
            /\ call' = ObcCall("ConnectComPort", port_id, 0, "none")
    /\ UNCHANGED <<gnss_vars, i2c_ports_, gpio_ports_, obc, i2c_port>>

CloseComPort ==
  \E port_id \in PortIds :
    /\ ObcRunning
    /\ IF PortAt(uart_ports_, port_id) = nullptr
       THEN /\ uart_ports_' = Touched(uart_ports_, port_id)
            /\ call' = ObcCall("CloseComPort", port_id, -1, "none")
       ELSE /\ uart_ports_' = Erase(uart_ports_, port_id)
            /\ call' = ObcCall("CloseComPort", port_id, 0, "port")
    /\ UNCHANGED <<gnss_vars, i2c_ports_, gpio_ports_, obc, i2c_port>>

\* A data operation on uart_ports_[port_id]: the early return on nullptr, else
\* the call through the pointer, r being the port after it and its return value.
UartData(op, port_id, r) ==
  LET port == PortAt(uart_ports_, port_id) IN
  /\ ObcRunning
  /\ IF NotConnected(port)
     THEN /\ uart_ports_' = Touched(uart_ports_, port_id)
          /\ call' = ObcCall(op, port_id, -1, "none")
          /\ obc' = obc
     ELSE IF port = nullptr
     THEN /\ uart_ports_' = Touched(uart_ports_, port_id)
          /\ call' = ObcCall(op, port_id, 0, "null")
          /\ obc' \in {obc, "crashed"}
     ELSE /\ uart_ports_' = MapSet(uart_ports_, port_id, <<r.port>>)
          /\ call' = ObcCall(op, port_id, r.ret, "port")
          /\ obc' = obc
  /\ UNCHANGED <<gnss_vars, i2c_ports_, gpio_ports_, i2c_port>>

SendFromObc ==
  \E port_id \in PortIds, length \in 0..MaxLength :
    UartData("SendFromObc", port_id, WriteTx(PortAt(uart_ports_, port_id)[1], length))

ReceivedByCompo ==
  \E port_id \in PortIds, length \in 0..MaxLength :
    UartData("ReceivedByCompo", port_id, ReadTx(PortAt(uart_ports_, port_id)[1], length))

SendFromCompo ==
  \E port_id \in PortIds, length \in 0..MaxLength :
    UartData("SendFromCompo", port_id, WriteRx(PortAt(uart_ports_, port_id)[1], length))

ReceivedByObc ==
  \E port_id \in PortIds, length \in 0..MaxLength :
    UartData("ReceivedByObc", port_id, ReadRx(PortAt(uart_ports_, port_id)[1], length))

GpioConnectPort ==
  \E port_id \in PortIds :
    /\ ObcRunning
    /\ IF AlreadyUsed(gpio_ports_, port_id)
       THEN /\ gpio_ports_' = gpio_ports_
            /\ call' = ObcCall("GpioConnectPort", port_id, -1, "none")
       ELSE /\ gpio_ports_' = MapSet(gpio_ports_, port_id, <<GpioPort(port_id)>>)
            /\ call' = ObcCall("GpioConnectPort", port_id, 0, "none")
    /\ UNCHANGED <<gnss_vars, uart_ports_, i2c_ports_, obc, i2c_port>>

\* A data operation on gpio_ports_[port_id]; error is what the early return
\* gives, r the port after the call through the pointer and its return value.
GpioData(op, port_id, error, r) ==
  LET port == PortAt(gpio_ports_, port_id) IN
  /\ ObcRunning
  /\ IF NotConnected(port)
     THEN /\ gpio_ports_' = Touched(gpio_ports_, port_id)
          /\ call' = ObcCall(op, port_id, error, "none")
          /\ obc' = obc
     ELSE IF port = nullptr
     THEN /\ gpio_ports_' = Touched(gpio_ports_, port_id)
          /\ call' = ObcCall(op, port_id, error, "null")
          /\ obc' \in {obc, "crashed"}
     ELSE /\ gpio_ports_' = MapSet(gpio_ports_, port_id, <<r.port>>)
          /\ call' = ObcCall(op, port_id, r.ret, "port")
          /\ obc' = obc
  /\ UNCHANGED <<gnss_vars, uart_ports_, i2c_ports_, i2c_port>>

GpioComponentWrite ==
  \E port_id \in PortIds, is_high \in BOOLEAN :
    GpioData("GpioComponentWrite", port_id, -1,
             DigitalWrite(PortAt(gpio_ports_, port_id)[1], is_high))

GpioComponentRead ==
  \E port_id \in PortIds :
    GpioData("GpioComponentRead", port_id, FALSE,
             DigitalRead(PortAt(gpio_ports_, port_id)[1]))

ObcNext ==
  \/ ConnectComPort
  \/ CloseComPort
  \/ SendFromObc
  \/ ReceivedByCompo
  \/ SendFromCompo
  \/ ReceivedByObc
  \/ GpioConnectPort
  \/ GpioComponentWrite
  \/ GpioComponentRead

ObcSpec == ObcInit /\ [][ObcNext]_vars

(***************************************************************************)
(* Properties                                                              *)
(***************************************************************************)
\* Initialize found a file and assigned the buffers.
Seeded == orbit_ # EmptyVec

IsGetter(op) == op \in {"GetPosition_ecef_m", "GetClock_s"}

\* C1: for every satellite id >= number_of_calculated_gnss_satellites_ (the
\* count itself included) a getter of a seeded manager returns the sentinel
\* and indexes no buffer.
C1_UntrackedIsSentinel ==
  (Seeded /\ IsGetter(ev.op) /\ ev.id >= number_of_calculated_gnss_satellites_)
    => (ev.sentinel /\ ev.indexed = -1 /\ ~ev.out_of_range)

\* C2: for a tracked satellite, a getter returns the sentinel without touching
\* a buffer when the resolved time is before reference_time_ or more than 1e6 s
\* after it, and evaluates the satellite's buffer at the offset otherwise.
C2_WindowBounds ==
  (Seeded /\ IsGetter(ev.op) /\ ev.id < number_of_calculated_gnss_satellites_)
    => LET diff_s == (IF ev.time = kUnsetTime THEN current_epoch_time_ ELSE ev.time)
                       - reference_time_
       IN IF diff_s < 0 \/ diff_s > 1000000
          THEN ev.sentinel /\ ev.indexed = -1
          ELSE ~ev.sentinel /\ ev.indexed = ev.id /\ ev.at = diff_s /\ ~ev.out_of_range

C2_Witness ==
  /\ Seeded /\ ev.op = "GetClock_s"
  /\ ev.id < number_of_calculated_gnss_satellites_
  /\ ev.time - reference_time_ = 1000001
  /\ ev.sentinel

\* The manager is seeded and its active file is one of the list: Update can refill.
Steady ==
  /\ phase = "running" /\ is_calc_enabled_ /\ Seeded
  /\ InRange(sp3_files_, sp3_file_id_)

\* A call of Update is the step.
UpdateStep == ev'.op = "Update" /\ phase = "running"

\* Some buffer got a sample in the step.
Pushed == \E g \in DOMAIN orbit_ : orbit_'[g] # orbit_[g] \/ clock_'[g] # clock_[g]

\* C3: a call of Update on a seeded manager whose file list is not used up
\* pushes into the buffers exactly when current time minus reference_time_ is
\* strictly greater than the time-offset of the middle sample (index W/2) of
\* orbit_[0]; otherwise buffers, epoch index and file index stay as they are.
C3_RefillCadence ==
  [][(UpdateStep /\ Steady)
       => LET diff_s == current_epoch_time_' - reference_time_
              medium_time_s == orbit_[0][(kNumberOfInterpolation \div 2) + 1].t
          IN /\ Pushed <=> diff_s > medium_time_s
             /\ diff_s <= medium_time_s
                  => UNCHANGED <<orbit_, clock_, reference_interpolation_id_, sp3_file_id_>>]_vars

C3_Witness ==
  /\ ev.op = "Update" /\ Seeded /\ is_calc_enabled_
  /\ ev.diff = ev.medium /\ ~ev.trigger
  /\ oob = {}

\* C4: after Initialize and any calls of Update, while the file list is not
\* used up, every tracked satellite's orbit and clock buffer holds the same
\* list of time-offsets, and no refill indexed orbit_ or clock_ outside
\* 0..number_of_calculated_gnss_satellites_-1.
C4_LockStep ==
  (Seeded /\ phase = "running" /\ "sp3_files_" \notin oob)
    => /\ \A g \in DOMAIN orbit_ :
            /\ GetTimeList(orbit_[g]) = GetTimeList(orbit_[0])
            /\ GetTimeList(clock_[g]) = GetTimeList(orbit_[0])
       /\ oob \cap {"orbit_", "clock_"} = {}

\* C5: with a single SP3 file, a simulation that starts at the file's first
\* epoch and runs past its last one reports "SP3 file range over" at most once
\* and never indexes sp3_files_ at or past its length.
C5_ExhaustionIsGraceful ==
  (is_calc_enabled_ /\ Seeded /\ Size(sp3_files_) = 1 /\ cfg.start_time = kSp3Coverage_s
     /\ oob \subseteq {"sp3_files_"})
    => /\ log.range_over <= 1
       /\ "sp3_files_" \notin oob

\* The indices of the files whose day contains time.
Containing(files, time) ==
  {i \in DOMAIN files :
     LET diff_s == time - GetStartEpochDateTime(files[i]) IN
     0 <= diff_s /\ diff_s < kSp3Coverage_s}

Least(S) == CHOOSE x \in S : \A y \in S : x <= y

\* C6: Initialize selects the smallest index of a file whose day contains the
\* start time; when no file does, it reports the mismatch and seeds nothing.
C6_SelectsFirstContaining ==
  (ev.op = "Initialize" /\ is_calc_enabled_)
    => IF Containing(sp3_files_, cfg.start_time) # {}
       THEN ev.id = Least(Containing(sp3_files_, cfg.start_time)) /\ Seeded
       ELSE log.mismatch = 1 /\ ~Seeded

\* C7: once a configuration error was reported (start date after end date, or
\* no file covers the start time) nothing is indexed out of range: neither the
\* empty file list nor, by a later Update or getter, the buffers never seeded.
C7_ConfigurationErrorIsFatal ==
  (log.config > 0 \/ log.mismatch > 0)
    => /\ oob = {}
       /\ ~ev.out_of_range
       /\ ev.op \notin {"Update", "GetPosition_ecef_m", "GetClock_s"}

\* The k samples read from epoch e of file f on, rolling to the next file at
\* the end of a file; a sample is <<file index, epoch index>>.
RECURSIVE ConsecutiveEpochs(_, _, _, _)
ConsecutiveEpochs(files, f, e, k) ==
  IF k = 0 \/ ~InRange(files, f) THEN <<>>
  ELSE <<(<<f, e>>)>> \o
         (IF e + 1 >= GetNumberOfEpoch(files[f])
          THEN ConsecutiveEpochs(files, f + 1, 0, k - 1)
          ELSE ConsecutiveEpochs(files, f, e + 1, k - 1))

\* C8: after a successful Initialize every tracked satellite's orbit and clock
\* buffer holds W samples, those of the W consecutive epochs from the anchor
\* on; and when the file list runs out, the range-over message is written
\* and sp3_files_ is not indexed out of range.
C8_SeedsWConsecutive ==
  (ev.op = "Initialize" /\ Seeded)
    => LET want == ConsecutiveEpochs(sp3_files_, ev.id, ev.at, kNumberOfInterpolation) IN
       /\ \A g \in DOMAIN orbit_ :
            /\ Len(orbit_[g]) = kNumberOfInterpolation
            /\ Len(clock_[g]) = kNumberOfInterpolation
            /\ \A i \in 1..Len(want) :
                 LET file == sp3_files_[want[i][1]]
                     e == want[i][2]
                 IN /\ orbit_[g][i] = Sample(GetEpochData(file, e) - reference_time_,
                                             1000 * GetSatellitePosition_km(file, e, g))
                    /\ clock_[g][i] = Sample(GetEpochData(file, e) - reference_time_,
                                             GetSatelliteClockOffset(file, e, g))
       /\ Len(want) < kNumberOfInterpolation => log.range_over >= 1
       /\ "sp3_files_" \notin oob

\* The <<file index, epoch index>> pairs of sp3_files_ whose epoch time is the
\* time of a sample of that time-offset: one pair for a sample read from a
\* file of the list, none for anything else.
SourcesOf(time_diff_s) ==
  LET time == time_diff_s + reference_time_ IN
  {p \in {<<j, (time - GetStartEpochDateTime(sp3_files_[j])) \div EpochInterval_s>> :
            j \in DOMAIN sp3_files_} :
     /\ 0 <= p[2] /\ p[2] < GetNumberOfEpoch(sp3_files_[p[1]])
     /\ GetEpochData(sp3_files_[p[1]], p[2]) = time}

IsFromFile(time_diff_s) == SourcesOf(time_diff_s) # {}

SourceOf(time_diff_s) == CHOOSE p \in SourcesOf(time_diff_s) : TRUE

\* The epoch that follows p: the next of its file, or epoch 0 of the next file.
Following(p) ==
  IF p[2] + 1 >= GetNumberOfEpoch(sp3_files_[p[1]]) THEN <<p[1] + 1, 0>>
  ELSE <<p[1], p[2] + 1>>

\* times: the time-offsets of a buffer.
FollowsInBuffer(times) ==
  \A i \in 1..(Len(times) - 1) :
    (IsFromFile(times[i]) /\ IsFromFile(times[i + 1]))
      => SourceOf(times[i + 1]) = Following(SourceOf(times[i]))

\* C9: in every buffer the sample after the last epoch of a file is epoch 0
\* of the next file of the list, and the next epoch to read,
\* <<sp3_file_id_, reference_interpolation_id_>>, is the one that follows the
\* newest sample: past the last epoch of a file the epoch index is 0 and the
\* file index is one more.
C9_Rollover ==
  (Seeded /\ phase = "running")
    => /\ \A times \in {GetTimeList(orbit_[g]) : g \in DOMAIN orbit_}
                         \cup {GetTimeList(clock_[g]) : g \in DOMAIN clock_} :
            FollowsInBuffer(times)
       /\ LET newest == orbit_[0][Len(orbit_[0])].t IN
          IsFromFile(newest)
            => <<sp3_file_id_, reference_interpolation_id_>> = Following(SourceOf(newest))

C9_Witness ==
  /\ Seeded /\ phase = "running" /\ Size(sp3_files_) = 2
  /\ ev.op = "Update" /\ ev.trigger
  /\ sp3_file_id_ = 1 /\ reference_interpolation_id_ = 0
  /\ IsFromFile(orbit_[0][Len(orbit_[0])].t)
  /\ SourceOf(orbit_[0][Len(orbit_[0])].t)[1] = 0

RECURSIVE MaxOffset(_)
MaxOffset(buf) ==
  IF Len(buf) = 1 THEN buf[1].t ELSE Max2(buf[1].t, MaxOffset(Tail(buf)))

NonDecreasing(buf) == \A i \in 1..(Len(buf) - 1) : buf[i].t <= buf[i + 1].t

\* C10: a triggered refill of a seeded manager that does not use up the file
\* list leaves every tracked satellite's orbit and clock buffer with a strictly
\* greater maximum time-offset, in non-decreasing order and of at most W samples.
C10_WindowMonotone ==
  [][(UpdateStep /\ Steady /\ InRange(sp3_files_, sp3_file_id_')
        /\ current_epoch_time_' - reference_time_
             > orbit_[0][(kNumberOfInterpolation \div 2) + 1].t)
       => \A g \in DOMAIN orbit_ :
            /\ MaxOffset(orbit_'[g]) > MaxOffset(orbit_[g])
            /\ MaxOffset(clock_'[g]) > MaxOffset(clock_[g])
            /\ NonDecreasing(orbit_'[g]) /\ NonDecreasing(clock_'[g])
            /\ Len(orbit_'[g]) <= kNumberOfInterpolation
            /\ Len(clock_'[g]) <= kNumberOfInterpolation]_vars

\* The members of the manager.
Members ==
  <<is_calc_enabled_, sp3_files_, number_of_calculated_gnss_satellites_, sp3_file_id_,
    reference_time_, reference_interpolation_id_, current_epoch_time_, orbit_, clock_>>

\* C11: a call of GetPosition_ecef_m or GetClock_s changes no member of the
\* manager (buffers, reference_time_, sp3_file_id_, reference_interpolation_id_,
\* current_epoch_time_, number_of_calculated_gnss_satellites_); and a call for
\* a tracked satellite that repeats the arguments of the call before it
\* returns what that call returned.
C11_GettersAreReadOnly ==
  [][IsGetter(ev'.op)
       => /\ UNCHANGED Members
          /\ (ev.op = ev'.op /\ ev.id = ev'.id /\ ev.time = ev'.time
                /\ Seeded /\ ev.id < number_of_calculated_gnss_satellites_)
               => (ev' = ev /\ phase' = phase)]_vars

C11_Witness ==
  /\ Seeded /\ ev.op = "GetPosition_ecef_m" /\ ~ev.sentinel
  /\ ev.id < number_of_calculated_gnss_satellites_
  /\ ev.time # kUnsetTime /\ ev.time # current_epoch_time_
  /\ sim_time > cfg.start_time

\* C12: the seeding starts at epoch max(0, nearest - W/2) of the selected
\* file, nearest being the file's epoch nearest to the start time, and
\* reference_time_ is the time of that epoch.
C12_AnchorCentred ==
  (ev.op = "Initialize" /\ Seeded)
    => LET file == sp3_files_[ev.id]
           nearest_epoch_index == SearchNearestEpochId(file, cfg.start_time)
       IN /\ ev.at = Max2(0, nearest_epoch_index - (kNumberOfInterpolation \div 2))
          /\ reference_time_ = GetEpochData(file, ev.at)

C12_Witness ==
  /\ ev.op = "Initialize" /\ Seeded
  /\ ev.at > 0
  /\ ev.at = SearchNearestEpochId(sp3_files_[ev.id], cfg.start_time)
               - (kNumberOfInterpolation \div 2)

\* C13: with the calculation enabled, a getter given the unset time resolves
\* it to the start time given to Initialize until the first Update and to the
\* time of the most recent Update afterwards (sim_time in both cases); any
\* other time is used as given; and a buffer is evaluated at the resolved
\* time's offset from reference_time_.
C13_UnsetResolvesToCurrent ==
  (IsGetter(ev.op) /\ is_calc_enabled_)
    => /\ ev.target = (IF ev.time = kUnsetTime THEN sim_time ELSE ev.time)
       /\ ~ev.sentinel => ev.at = ev.target - reference_time_

C13_Witness ==
  /\ Seeded /\ is_calc_enabled_ /\ IsGetter(ev.op)
  /\ ev.time = kUnsetTime
  /\ sim_time > cfg.start_time
  /\ ~ev.sentinel /\ ev.at = sim_time - reference_time_

\* C14: with the calculation disabled a call of Update changes nothing of the
\* manager, whatever the simulation time.
C14_DisabledUpdateIsNoOp ==
  [][(UpdateStep /\ ~is_calc_enabled_)
       => /\ UNCHANGED Members
          /\ UNCHANGED <<phase, log, oob>>]_vars

C14_Witness ==
  /\ ev.op = "Update" /\ ~is_calc_enabled_
  /\ sim_time > cfg.start_time
  /\ current_epoch_time_ = 0

\* An Update step that rolled over to a further file of the list.
RolloverStep ==
  /\ UpdateStep /\ Steady
  /\ sp3_file_id_' = sp3_file_id_ + 1 /\ reference_interpolation_id_' = 0
  /\ InRange(sp3_files_, sp3_file_id_')

\* A buffer that got a sample in the step holds, as its newest sample, the
\* epoch <<sp3_file_id_, reference_interpolation_id_>> at its offset from reference_time_'.
PushedAtOffsetFromReference ==
  LET t == GetEpochData(sp3_files_[sp3_file_id_], reference_interpolation_id_) - reference_time_'
  IN \A g \in DOMAIN orbit_ :
       /\ orbit_'[g] # orbit_[g] => orbit_'[g][Len(orbit_'[g])].t = t
       /\ clock_'[g] # clock_[g] => clock_'[g][Len(clock_'[g])].t = t

\* C15: at a rollover (epoch index reset to 0, next file) reference_time_ is
\* re-anchored, and what a refill pushes is stored at its offset from reference_time_.
C15_ReAnchoredAtRollover ==
  [][/\ RolloverStep => reference_time_' # reference_time_
     /\ (UpdateStep /\ Steady) => PushedAtOffsetFromReference]_vars

\* C15 as amended: reference_time_ is set by Initialize and no later call
\* changes it, a rollover included; while the file list is not used up, what a
\* refill pushes is stored at its epoch's offset from that reference_time_.
C15_AnchoredOnce ==
  [][/\ phase = "running" => reference_time_' = reference_time_
     /\ (UpdateStep /\ Steady) => PushedAtOffsetFromReference]_vars

C15_Witness ==
  /\ Seeded /\ phase = "running" /\ ev.op = "Update" /\ ev.trigger
  /\ Size(sp3_files_) = 2 /\ sp3_file_id_ = 1 /\ reference_interpolation_id_ = 0
  /\ reference_time_ < GetStartEpochDateTime(sp3_files_[1])
  /\ orbit_[0][Len(orbit_[0])].t + reference_time_
       = GetEpochData(sp3_files_[0], GetNumberOfEpoch(sp3_files_[0]) - 1)

\* The state of the manager's life: Uninitialized until Initialize has
\* seeded the buffers (the seeding is inside Initialize), Steady while the
\* active file is one of the list, Exhausted once it is past the list.
Lifecycle ==
  IF phase = "new" \/ ~Seeded THEN "Uninitialized"
  ELSE IF InRange(sp3_files_, sp3_file_id_) THEN "Steady"
  ELSE "Exhausted"

LifecycleOrder ==
  {<<"Uninitialized", "Uninitialized">>, <<"Uninitialized", "Steady">>,
   <<"Steady", "Steady">>, <<"Steady", "Exhausted">>, <<"Exhausted", "Exhausted">>}

\* C16: the manager goes Uninitialized -> (Seeding ->) Steady -> Exhausted in
\* that order only: Initialize leaves it Steady with W samples in every
\* buffer, only a Steady manager becomes Exhausted, and an Exhausted one stays so.
C16_Lifecycle ==
  [][(is_calc_enabled_ /\ cfg.nsat = kUpdateLoopCount)
       => /\ <<Lifecycle, Lifecycle'>> \in LifecycleOrder
          /\ Lifecycle' = "Steady"
               => \A g \in DOMAIN orbit_' :
                    /\ Len(orbit_'[g]) = kNumberOfInterpolation
                    /\ Len(clock_'[g]) = kNumberOfInterpolation]_vars

\* The file list is used up.
Exhausted == Seeded /\ ~InRange(sp3_files_, sp3_file_id_)

\* Every sample of the window was read from a file of the list.
ValidWindow ==
  \A g \in DOMAIN orbit_ :
    \A i \in 1..Len(orbit_[g]) : IsFromFile(orbit_[g][i].t) /\ IsFromFile(clock_[g][i].t)

\* C17: once the file list is used up, a call of Update pushes into no buffer
\* and reads no file: the last valid window stays as it is and the program goes on.
C17_ExhaustedUpdateIsInert ==
  [][(UpdateStep /\ is_calc_enabled_ /\ Exhausted /\ ValidWindow
        /\ number_of_calculated_gnss_satellites_ = kUpdateLoopCount)
       => /\ UNCHANGED <<orbit_, clock_, reference_time_>>
          /\ phase' = "running"
          /\ oob' = oob]_vars

\* C18: the log header and a log value line hold one position and one clock
\* offset for each of the satellites 0..number_of_calculated_gnss_satellites_-1
\* and for no other, and writing the values calls no getter out of range.
C18_LogCoversTracked ==
  (ev.op = "GetLogValue" /\ Seeded)
    => /\ ev.logged = 0..(number_of_calculated_gnss_satellites_ - 1)
       /\ GetLogHeader = 0..(number_of_calculated_gnss_satellites_ - 1)
       /\ ~ev.out_of_range

\* C19: the end-to-end scenario.  Initialize completes, with reference_time_
\* the time of epoch 0 and the buffers of both satellites holding the epochs
\* 0..8; then GetPosition_ecef_m(0, start_time) evaluates orbit_[0] at offset
\* 0, where the raw sample of epoch 0 is stored, and GetClock_s(1, t) returns
\* the sentinel for t before the start time.
C19_EndToEnd ==
  LET file == sp3_files_[0]
      epochs == 0..(ScenarioEpochs - 1)
      fresh == phase = "running" /\ overrun = 0 /\ sim_time = cfg.start_time
  IN
  /\ ev.op = "Initialize"
       => /\ phase = "running" /\ oob = {}
          /\ reference_time_ = GetEpochData(file, 0)
          /\ DOMAIN orbit_ = 0..(ScenarioSatellites - 1)
          /\ DOMAIN clock_ = 0..(ScenarioSatellites - 1)
          /\ \A g \in DOMAIN orbit_, e \in epochs :
               /\ orbit_[g][e + 1] = Sample(e * ScenarioInterval_s,
                                            1000 * GetSatellitePosition_km(file, e, g))
               /\ clock_[g][e + 1] = Sample(e * ScenarioInterval_s,
                                            GetSatelliteClockOffset(file, e, g))
  /\ (fresh /\ ev.op = "GetPosition_ecef_m" /\ ev.id = 0 /\ ev.time = cfg.start_time)
       => /\ ~ev.sentinel /\ ev.indexed = 0 /\ ev.at = 0
          /\ orbit_[0][1] = Sample(0, 1000 * GetSatellitePosition_km(file, 0, 0))
  /\ (fresh /\ ev.op = "GetClock_s" /\ ev.id = 1
        /\ ev.time # kUnsetTime /\ ev.time < cfg.start_time)
       => ev.sentinel

\* C20: the files are used in the order of the list.  A call of Update on a
\* steady manager leaves sp3_file_id_ as it is or adds one to it, at the end
\* of the active file's epochs only; running past the last file writes the
\* range-over message, and sp3_files_ is never indexed at or past its length.
C20_ConsumedInOrder ==
  [][(UpdateStep /\ Steady /\ number_of_calculated_gnss_satellites_ = kUpdateLoopCount)
       => /\ sp3_file_id_' \in {sp3_file_id_, sp3_file_id_ + 1}
          /\ sp3_file_id_' = sp3_file_id_ + 1
               => /\ reference_interpolation_id_' = 0
                  /\ reference_interpolation_id_ + 1
                       >= GetNumberOfEpoch(sp3_files_[sp3_file_id_])
          /\ sp3_file_id_' >= Size(sp3_files_) => log'.range_over = log.range_over + 1
          /\ "sp3_files_" \notin oob']_vars

\* new is old, or old after one PushAndPopData.
AtMostOnePush(old, new) ==
  \/ new = old
  \/ /\ Len(new) >= 1
     /\ new = PushAndPopData(old, new[Len(new)].t, new[Len(new)].v)

\* C21: one call of Update consumes at most one epoch, however far the time
\* lies past the window midpoint: the epoch index stays, advances by one or
\* rolls over once to the next file, and every buffer gets at most one push.
C21_OneEpochPerUpdate ==
  [][(UpdateStep /\ is_calc_enabled_ /\ Seeded)
       => /\ \/ sp3_file_id_' = sp3_file_id_
                  /\ reference_interpolation_id_' = reference_interpolation_id_
             \/ sp3_file_id_' = sp3_file_id_
                  /\ reference_interpolation_id_' = reference_interpolation_id_ + 1
             \/ sp3_file_id_' = sp3_file_id_ + 1 /\ reference_interpolation_id_' = 0
          /\ \A g \in DOMAIN orbit_ :
               /\ AtMostOnePush(orbit_[g], orbit_'[g])
               /\ AtMostOnePush(clock_[g], clock_'[g])]_vars

C21_Witness ==
  /\ ev.op = "Update" /\ ev.trigger /\ Seeded /\ phase = "running"
  /\ InRange(sp3_files_, sp3_file_id_) /\ oob = {}
  /\ ev.diff - ev.medium >= 2 * EpochInterval_s
  /\ orbit_[0][(kNumberOfInterpolation \div 2) + 1].t = ev.medium + EpochInterval_s
  /\ orbit_[0][(kNumberOfInterpolation \div 2) + 1].t < ev.diff

\* C22: while the file list is not used up, the epoch index is below the
\* epoch count of the active file, so every sample read by Initialize and
\* Update is an epoch of the file it is read from.
C22_EpochIndexInFile ==
  (is_calc_enabled_ /\ Seeded /\ phase = "running" /\ InRange(sp3_files_, sp3_file_id_))
    => /\ reference_interpolation_id_ < GetNumberOfEpoch(sp3_files_[sp3_file_id_])
       /\ "sp3_files_" \notin oob
            => \A times \in {GetTimeList(orbit_[g]) : g \in DOMAIN orbit_}
                              \cup {GetTimeList(clock_[g]) : g \in DOMAIN clock_} :
                 \A i \in 1..Len(times) : IsFromFile(times[i])

C22_Witness ==
  /\ Steady /\ ev.op = "Update" /\ ev.trigger /\ "sp3_files_" \notin oob
  /\ reference_interpolation_id_ = GetNumberOfEpoch(sp3_files_[sp3_file_id_]) - 1

\* C23: after an Initialize that selected a file, no placeholder entry
\* (time -1, value -1) is left in the clock buffer of any tracked satellite:
\* each holds W samples, and while the file list is not used up each sample is
\* the clock offset of an epoch of a file.
C23_NoPlaceholderLeft ==
  (Seeded /\ phase = "running")
    => \A g \in DOMAIN clock_ :
         /\ Len(clock_[g]) = kNumberOfInterpolation
         /\ \A i \in 1..Len(clock_[g]) :
              /\ clock_[g][i] # [t |-> -1, v |-> -1]
              /\ "sp3_files_" \notin oob
                   => /\ IsFromFile(clock_[g][i].t)
                      /\ LET p == SourceOf(clock_[g][i].t)
                         IN clock_[g][i].v = GetSatelliteClockOffset(sp3_files_[p[1]], p[2], g)

C23_Witness ==
  /\ ev.op = "Initialize" /\ Seeded /\ phase = "running" /\ oob = {}
  /\ clock_[0][1].t = 0 /\ clock_[0][1].v # -1
  /\ Len(clock_[0]) = kNumberOfInterpolation

(***************************************************************************)
(* I2CPort properties                                                      *)
(***************************************************************************)
\* The saved addresses n consecutive ReadRegister(i2c_addr) calls read at, and the port after them.
RECURSIVE ReadMany(_, _, _)
ReadMany(p, i2c_addr, n) ==
  IF n = 0 THEN [port |-> p, visited |-> <<>>]
  ELSE LET rest == ReadMany(ReadRegister_Next(p, i2c_addr).port, i2c_addr, n - 1)
       IN [port |-> rest.port, visited |-> <<p.saved_reg_addr_>> \o rest.visited]

FullCycle(p, i2c_addr) ==
  LET many == ReadMany(p, i2c_addr, p.max_register_number_) IN
  /\ {many.visited[i] : i \in DOMAIN many.visited} = 0..(p.max_register_number_ - 1)
  /\ many.port.saved_reg_addr_ = p.saved_reg_addr_

IsPortCall(op) == call'.op = op /\ <<i2c_port, call>> # <<i2c_port', call'>>

\* C28: with max_register_number >= 1 the saved register address stays below
\* max_register_number; ReadRegister(i2c_addr) returns the register at the saved
\* address and advances it by one, wrapping to 0 at max_register_number, so
\* max_register_number consecutive reads visit every register once and come
\* back to the starting address.
C28_SavedAddressCycles ==
  /\ [](i2c_port.max_register_number_ >= 1 =>
          /\ i2c_port.saved_reg_addr_ < i2c_port.max_register_number_
          /\ \A a \in I2cAddrs : FullCycle(i2c_port, a))
  /\ [][IsPortCall("ReadRegister_Next") /\ i2c_port.max_register_number_ >= 1 =>
          /\ call'.ret = MapAt(i2c_port.device_registers_, <<call'.i2c_addr, i2c_port.saved_reg_addr_>>)
          /\ i2c_port'.saved_reg_addr_ =
               IF i2c_port.saved_reg_addr_ + 1 = i2c_port.max_register_number_
               THEN 0 ELSE i2c_port.saved_reg_addr_ + 1]_vars

\* A read at the last register returned a written value and wrapped to 0.
C28_Witness ==
  /\ call.op = "ReadRegister_Next"
  /\ i2c_port.max_register_number_ = MaxRegisterNumber
  /\ call.reg_addr = MaxRegisterNumber - 1
  /\ call.ret \in RegisterValues
  /\ i2c_port.saved_reg_addr_ = 0

RegistersKeptExcept(keys) ==
  \A k \in (DOMAIN i2c_port.device_registers_ \cup DOMAIN i2c_port'.device_registers_) \ keys :
    /\ k \in DOMAIN i2c_port.device_registers_
    /\ k \in DOMAIN i2c_port'.device_registers_
    /\ i2c_port'.device_registers_[k] = i2c_port.device_registers_[k]

\* C29: WriteRegister (both overloads) and ReadRegister(i2c_addr, reg_addr) with
\* reg_addr >= max_register_number return 0 and leave the saved address and
\* every register unchanged; with reg_addr < max_register_number WriteRegister
\* returns 1, sets the saved address to reg_addr, and the three-argument form
\* changes only the register (i2c_addr, reg_addr).
C29_RegisterAddressChecked ==
  [][/\ (IsPortCall("WriteRegister") \/ IsPortCall("WriteRegister_Address") \/ IsPortCall("ReadRegister"))
        /\ call'.reg_addr >= i2c_port.max_register_number_
       => call'.ret = 0 /\ i2c_port' = i2c_port
     /\ (IsPortCall("WriteRegister") \/ IsPortCall("WriteRegister_Address"))
        /\ call'.reg_addr < i2c_port.max_register_number_
       => /\ call'.ret = 1
          /\ i2c_port'.saved_reg_addr_ = call'.reg_addr
          /\ i2c_port'.max_register_number_ = i2c_port.max_register_number_
          /\ IF call'.op = "WriteRegister"
             THEN /\ RegistersKeptExcept({<<call'.i2c_addr, call'.reg_addr>>})
                  /\ i2c_port'.device_registers_[<<call'.i2c_addr, call'.reg_addr>>] \in RegisterValues
             ELSE RegistersKeptExcept({})]_vars

\* A write at reg_addr = max_register_number was refused by a port holding a written register.
C29_Witness ==
  /\ call.op = "WriteRegister"
  /\ call.ret = 0
  /\ call.reg_addr = i2c_port.max_register_number_
  /\ i2c_port.max_register_number_ >= 1
  /\ \E k \in DOMAIN i2c_port.device_registers_ : i2c_port.device_registers_[k] \in RegisterValues

(***************************************************************************)
(* OBC properties                                                          *)
(***************************************************************************)
\* The step is a call of op on the OBC.
IsObcCall(op) == call'.op = op /\ obc_vars' # obc_vars

\* C26: I2cComponentWriteRegister, I2cComponentReadRegister and
\* I2cComponentReadCommand called with a port_id that is not connected do not
\* access a port object.
C26_UnconnectedI2cPortNotAccessed ==
  [][/\ \/ IsObcCall("I2cComponentWriteRegister")
        \/ IsObcCall("I2cComponentReadRegister")
        \/ IsObcCall("I2cComponentReadCommand")
     /\ PortAt(i2c_ports_, call'.port_id) = nullptr
     => call'.accessed = "none"]_vars

\* RegisterDevice(i2c_address) has filled the registers of the device on the port.
Registered(p, i2c_address) ==
  \A r \in 0..(p.max_register_number_ - 1) : <<i2c_address, r>> \in DOMAIN p.device_registers_

\* C27: after I2cConnectPort(port, a) and I2cComponentWriteRegister(port, a, r,
\* data, n) with n >= 1 and r below the register limit of the port,
\* I2cComponentReadRegister(port, a, r, out, n) fills every out[i] with data[n-1].
C27_RegisterRoundTrip ==
  [][/\ IsObcCall("I2cComponentReadRegister")
     /\ call.op = "I2cComponentWriteRegister"
     /\ call.accessed = "port"
     /\ call'.port_id = call.port_id
     /\ call'.i2c_address = call.i2c_address
     /\ call'.reg_address = call.reg_address
     /\ call'.length = Len(call.data)
     /\ Len(call.data) >= 1
     /\ PortAt(i2c_ports_, call.port_id) # nullptr
     /\ Registered(PortAt(i2c_ports_, call.port_id)[1], call.i2c_address)
     /\ call.reg_address < PortAt(i2c_ports_, call.port_id)[1].max_register_number_
     => call'.out = [i \in 1..call'.length |-> call.data[Len(call.data)]]]_vars

\* Every UART port but the one of port_id is as it was.
OtherUartPortsKept(port_id) ==
  \A other \in PortIds \ {port_id} : PortAt(uart_ports_', other) = PortAt(uart_ports_, other)

\* C24: ConnectComPort returns 0 and creates the port iff the port is not
\* connected, and returns -1 leaving the existing port untouched otherwise;
\* CloseComPort returns 0 and removes the port iff it is connected, and returns
\* -1 otherwise; so Connect, Close, Connect on one id return 0, 0, 0.
C24_ConnectCloseUart ==
  [][/\ IsObcCall("ConnectComPort") =>
          /\ OtherUartPortsKept(call'.port_id)
          /\ IF PortAt(uart_ports_, call'.port_id) = nullptr
             THEN /\ call'.ret = 0
                  /\ \E size \in BufferSizes :
                       PortAt(uart_ports_', call'.port_id) = <<UartPort(size[1], size[2])>>
             ELSE /\ call'.ret = -1
                  /\ PortAt(uart_ports_', call'.port_id) = PortAt(uart_ports_, call'.port_id)
     /\ IsObcCall("CloseComPort") =>
          /\ OtherUartPortsKept(call'.port_id)
          /\ PortAt(uart_ports_', call'.port_id) = nullptr
          /\ call'.ret = IF PortAt(uart_ports_, call'.port_id) = nullptr THEN -1 ELSE 0
     /\ /\ IsObcCall("CloseComPort")
        /\ call.op = "ConnectComPort" /\ call.ret = 0 /\ call'.port_id = call.port_id
        => call'.ret = 0 /\ call'.port_id \notin DOMAIN uart_ports_'
     /\ /\ IsObcCall("ConnectComPort")
        /\ call.op = "CloseComPort" /\ call.ret = 0 /\ call'.port_id = call.port_id
        => call'.ret = 0]_vars

\* A second ConnectComPort was refused and the connected port kept its queued byte.
C24_Witness ==
  /\ call.op = "ConnectComPort"
  /\ call.ret = -1
  /\ PortAt(uart_ports_, call.port_id) # nullptr
  /\ PortAt(uart_ports_, call.port_id)[1].tx > 0
  /\ \E other \in PortIds : PortAt(uart_ports_, other) = nullptr

UartDataOps == {"SendFromObc", "ReceivedByCompo", "SendFromCompo", "ReceivedByObc"}

GpioDataOps == {"GpioComponentWrite", "GpioComponentRead"}

\* C25: the UART and GPIO data operations called with a port_id that was never
\* connected or has been closed return -1 (false for GpioComponentRead) and
\* access no port object.
C25_UnconnectedPortRefused ==
  [][/\ \A op \in UartDataOps :
          IsObcCall(op) /\ PortAt(uart_ports_, call'.port_id) = nullptr =>
            /\ call'.ret = -1
            /\ call'.accessed = "none"
            /\ \A id \in PortIds : PortAt(uart_ports_', id) = PortAt(uart_ports_, id)
            /\ obc' = obc
     /\ \A op \in GpioDataOps :
          IsObcCall(op) /\ PortAt(gpio_ports_, call'.port_id) = nullptr =>
            /\ call'.ret = (IF op = "GpioComponentRead" THEN FALSE ELSE -1)
            /\ call'.accessed = "none"
            /\ \A id \in PortIds : PortAt(gpio_ports_', id) = PortAt(gpio_ports_, id)
            /\ obc' = obc]_vars

\* A read on a closed port was refused while the other port holds a received byte.
C25_Witness ==
  /\ call.op = "ReceivedByObc"
  /\ call.accessed = "none"
  /\ call.port_id \in DOMAIN uart_ports_
  /\ uart_ports_[call.port_id] = nullptr
  /\ \E other \in PortIds :
       /\ PortAt(uart_ports_, other) # nullptr
       /\ PortAt(uart_ports_, other)[1].rx > 0

====
